---- MODULE Spec2Model ----
(***************************************************************************)
(* Model of the MongoDB -> MySQL billing migrator (main.go, models.go).    *)
(*                                                                         *)
(* The program connects to both stores, drops and recreates the            *)
(* destination schema (Migrate), and then runs ten entity migrators in a   *)
(* fixed order (migrateAll).  The destination database outlives a process, *)
(* so the model lets the program be invoked again on what a previous       *)
(* invocation left behind.                                                 *)
(*                                                                         *)
(* Conventions: a Go pointer (or an error) is a sequence of length 0 (nil) *)
(* or 1; a Go string is a tuple of one-character strings; a table is the   *)
(* sequence of its rows in insertion order.                                *)
(***************************************************************************)
EXTENDS Integers, Sequences, FiniteSets, TLC

\* ------------------------------------------------------------------ bounds
\* How many times the program is invoked on the same destination.
MaxRuns == 2
\* How many store calls may fail during migrateAll and connection setup.
MaxFaults == 1
\* How many DropTable calls of Migrate may fail (their error is ignored).
MaxDropFails == 1
\* How many of the twelve bytes of an ObjectID the model keeps.
OidLen == 2

\* ------------------------------------------------------------------- time
\* A time.Time: calendar date and second of the day, UTC.
Time(y, m, d, s) == [year |-> y, month |-> m, day |-> d, sec |-> s]

\* The zero time.Time, January 1 of year 1, 00:00:00 UTC.
ZeroTime == Time(1, 1, 1, 0)

IsZero(t) == t = ZeroTime

\* validateDateTime with both limits excluded.
validateDateTimeExclusive(t) ==
    IF IsZero(t) \/ t.year <= 1970 \/ t.year >= 2100 \/ t.year = 0
    THEN <<>>
    ELSE <<t>>

\* validateDateTime: nil for the zero time or a year outside [1970, 2100].
validateDateTime(t) ==
    IF IsZero(t) \/ t.year < 1970 \/ t.year > 2100 \/ t.year = 0
    THEN <<>>
    ELSE <<t>>

\* The closure used for nullable columns: validate when the pointer is set.
validatePtr(p) == IF p # <<>> THEN validateDateTime(p[1]) ELSE <<>>

\* -------------------------------------------------------- RFC 3339 parsing
DigitChars == <<"0", "1", "2", "3", "4", "5", "6", "7", "8", "9">>

IsDigit(c) == \E i \in 1..10 : DigitChars[i] = c

DigitVal(c) == (CHOOSE i \in 1..10 : DigitChars[i] = c) - 1

Num2(s, i) == 10 * DigitVal(s[i]) + DigitVal(s[i + 1])

Num4(s, i) == 100 * Num2(s, i) + Num2(s, i + 2)

IsLeap(y) == (y % 4 = 0 /\ y % 100 # 0) \/ y % 400 = 0

DaysIn(y, m) ==
    IF m = 2 THEN (IF IsLeap(y) THEN 29 ELSE 28)
    ELSE IF m \in {4, 6, 9, 11} THEN 30 ELSE 31

\* time.Parse(time.RFC3339, s) for the UTC form YYYY-MM-DDTHH:MM:SSZ:
\* [ok, t].  Anything else the model feeds it is rejected.
ParseRFC3339(s) ==
    LET shape == /\ Len(s) = 20
                 /\ s[5] = "-" /\ s[8] = "-" /\ s[11] = "T"
                 /\ s[14] = ":" /\ s[17] = ":" /\ s[20] = "Z"
                 /\ \A i \in {1, 2, 3, 4, 6, 7, 9, 10, 12, 13, 15, 16, 18, 19} :
                        IsDigit(s[i])
    IN  IF ~shape THEN [ok |-> FALSE, t |-> ZeroTime]
        ELSE LET y == Num4(s, 1)
                 mo == Num2(s, 6)
                 d == Num2(s, 9)
                 h == Num2(s, 12)
                 mi == Num2(s, 15)
                 se == Num2(s, 18)
                 valid == /\ mo \in 1..12
                          /\ d >= 1 /\ d <= DaysIn(y, mo)
                          /\ h <= 23 /\ mi <= 59 /\ se <= 59
             IN  IF valid
                 THEN [ok |-> TRUE, t |-> Time(y, mo, d, h * 3600 + mi * 60 + se)]
                 ELSE [ok |-> FALSE, t |-> ZeroTime]

\* ------------------------------------------------------------- ObjectIDs
HexChars == <<"0", "1", "2", "3", "4", "5", "6", "7",
              "8", "9", "a", "b", "c", "d", "e", "f">>

\* A primitive.ObjectID, a sequence of bytes.  Oid(n) has n in its last byte
\* and Oid2(m, n) also sets the first byte (the timestamp part of a new id).
Oid2(m, n) ==
    [i \in 1..OidLen |-> IF i = OidLen THEN n ELSE IF i = 1 THEN m ELSE 0]

Oid(n) == Oid2(0, n)

\* The zero ObjectID of a nested struct that the document does not carry.
NilObjectID == Oid(0)

\* ObjectID.Hex(): two lower-case hex digits per byte.
Hex(oid) ==
    [i \in 1..(2 * Len(oid)) |->
        LET b == oid[(i + 1) \div 2]
        IN  IF i % 2 = 1 THEN HexChars[(b \div 16) + 1] ELSE HexChars[(b % 16) + 1]]

\* ----------------------------------------------------------------- schema
\* The destination tables, in the order Migrate drops and creates them.
Tables == <<"services", "organizations", "organization_service_demo_uses",
            "packages", "package_items", "package_activation_bonus_packages",
            "bought_packages", "bought_package_items", "charges", "payments",
            "payme_transactions", "organization_balance_bindings",
            "credit_updates", "bank_payments_auto_apply_errors">>

TableSet == {Tables[i] : i \in 1..Len(Tables)}

ChildTables == {"organization_service_demo_uses", "package_items",
                "package_activation_bonus_packages", "bought_package_items"}

\* A schema without any key.
UniqueKeysNone(table) == {}

\* The uniqueness constraints the gorm tags declare: the primaryKey column and
\* the uniqueIndex columns of each model.  OrganizationServiceDemoUses and
\* PackageActivationBonusPackage declare none.
UniqueKeys(table) ==
    IF table = "services" THEN {{"id"}, {"code"}}
    ELSE IF table \in {"organization_service_demo_uses",
                       "package_activation_bonus_packages"} THEN {}
    ELSE {{"id"}}

\* The tables whose model has a primaryKey column "id".
HasId(table) == {"id"} \in UniqueKeys(table)

\* The time.Time (not null) and *time.Time (nullable) columns of each model.
TimeCols(table) ==
    IF table = "organizations" THEN {"created_at", "updated_at"}
    ELSE IF table = "organization_service_demo_uses" THEN {"used_at"}
    ELSE IF table = "bought_packages" THEN {"bought_at", "expires_at"}
    ELSE IF table = "payme_transactions" THEN {"created_at", "payme_created_at"}
    ELSE IF table \in {"package_items", "package_activation_bonus_packages",
                       "bought_package_items"} THEN {}
    ELSE {"created_at"}

NullableTimeCols(table) ==
    IF table = "organizations" THEN {"deleted_at", "offer_date"}
    ELSE IF table = "charges" THEN {"date1", "date2"}
    ELSE IF table = "payme_transactions"
         THEN {"system_completed_at", "system_canceled_at"}
    ELSE IF table = "organization_balance_bindings" THEN {"deleted_at"}
    ELSE {}

EmptyDB == [t \in TableSet |-> <<>>]

\* ------------------------------------------------------- destination calls
\* A row with this primary key or unique-index value is already stored.
Conflicts(d, table, row) ==
    \E i \in 1..Len(d[table]) :
        \E key \in UniqueKeys(table) :
            \A col \in key : d[table][i][col] = row[col]

\* db.Create treating every insert as an insert-or-ignore.
CreateAlwaysIgnoring(d, table, row, onConflict, fail) ==
    IF fail
    THEN [dest |-> d, err |-> <<"store error">>]
    ELSE IF \E i \in 1..Len(d[table]) :
               \E key \in UniqueKeys(table) :
                  \A col \in key : d[table][i][col] = row[col]
    THEN [dest |-> d, err |-> <<>>]
    ELSE [dest |-> [d EXCEPT ![table] = Append(@, row)], err |-> <<>>]

\* db.Create (onConflict = FALSE) and
\* db.Clauses(clause.OnConflict{DoNothing: true}).Create (onConflict = TRUE).
\* fail: the store refuses the statement (connectivity, constraint of the
\* engine, a value the server's sql_mode rejects such as a zero date).  A plain insert fails on a duplicate key; an insert with the
\* on-conflict clause is a no-op there.  Returns the store and the error.
Create(d, table, row, onConflict, fail) ==
    IF fail
    THEN [dest |-> d, err |-> <<"store error">>]
    ELSE IF Conflicts(d, table, row)
    THEN [dest |-> d,
          err |-> IF onConflict THEN <<>> ELSE <<"duplicate key">>]
    ELSE [dest |-> [d EXCEPT ![table] = Append(@, row)], err |-> <<>>]

\* CreateEach as one transaction: a refused insert undoes the earlier ones.
RECURSIVE CreateEachRollback(_, _, _, _, _, _)
CreateEachRollback(d, table, rows, onConflict, failAt, idx) ==
    IF rows = <<>>
    THEN [dest |-> d, done |-> 0, err |-> <<>>]
    ELSE LET r == Create(d, table, Head(rows), onConflict, idx = failAt)
         IN  IF r.err # <<>>
             THEN [dest |-> d, done |-> 0, err |-> r.err]
             ELSE LET rest == CreateEachRollback(r.dest, table, Tail(rows),
                                                 onConflict, failAt, idx + 1)
                  IN  [dest |-> IF rest.err # <<>> THEN d ELSE rest.dest,
                       done |-> rest.done + 1,
                       err |-> rest.err]

\* A loop of Create calls over rows; idx numbers the insert statements of one
\* document and failAt is the one the store refuses (0: none).  done counts
\* the calls that returned no error.
RECURSIVE CreateEach(_, _, _, _, _, _)
CreateEach(d, table, rows, onConflict, failAt, idx) ==
    IF rows = <<>>
    THEN [dest |-> d, done |-> 0, err |-> <<>>]
    ELSE LET r == Create(d, table, Head(rows), onConflict, idx = failAt)
         IN  IF r.err # <<>>
             THEN [dest |-> d, done |-> 0, err |-> r.err]
             ELSE LET rest == CreateEach(r.dest, table, Tail(rows),
                                         onConflict, failAt, idx + 1)
                  IN  [dest |-> rest.dest, done |-> rest.done + 1,
                       err |-> rest.err]

\* checkRecordExists comparing the count with 1 instead of 0.
checkRecordExistsMoreThanOne(d, table, id, fail) ==
    IF fail THEN FALSE
    ELSE Cardinality({i \in 1..Len(d[table]) : d[table][i].id = id}) > 1

\* checkRecordExists answering "true" when the query fails.
checkRecordExistsFailedIsPresent(d, table, id, fail) ==
    IF fail THEN TRUE
    ELSE \E i \in 1..Len(d[table]) : d[table][i].id = id

\* checkRecordExists: a failed query is logged and answered "false".
checkRecordExists(d, table, id, fail) ==
    IF fail THEN FALSE
    ELSE \E i \in 1..Len(d[table]) : d[table][i].id = id

\* mysqlCount: a failed query is logged and answered 0.
mysqlCount(d, table, fail) == IF fail THEN 0 ELSE Len(d[table])

\* mongoCount: a failed query is logged and answered 0.
mongoCount(s, collection, fail) == IF fail THEN 0 ELSE Len(s[collection])

\* ------------------------------------------------- charge type resolution
\* The optional sub-documents of a charge, by bson name.
SubNames == {"roaming_invoice", "roaming_contract", "roaming_waybill",
             "roaming_act", "roaming_verification_act", "roaming_empowerment",
             "edi_return_invoice", "edi_attorney"}

\* The keys the resolver reads from a sub-document (map[string]interface{}).
MapKeys == {"_id", "number", "date", "start_date", "end_date"}

\* A value of the map with its dynamic type: k is "missing" (no such key),
\* "string", "time" (time.Time) or "other" (any other Go type).
Val(k, s, t) == [k |-> k, s |-> s, t |-> t]

Missing == Val("missing", <<>>, ZeroTime)

\* v.(string): the value, or "" when the assertion fails.
AsString(v) == IF v.k = "string" THEN v.s ELSE <<>>

\* v.(time.Time): pointer to the value, or nil when the assertion fails.
AsTime(v) == IF v.k = "time" THEN <<v.t>> ELSE <<>>

\* The roaming invoice branch also tries v.(string) with time.Parse.
AsTimeOrRFC3339(v) ==
    IF v.k = "time" THEN <<v.t>>
    ELSE IF v.k = "string" /\ ParseRFC3339(v.s).ok THEN <<ParseRFC3339(v.s).t>>
    ELSE <<>>

\* A branch that reads number from the key "_id".
BranchNumberFromId(code, m, d1, k2) ==
    [type |-> code,
     objectId |-> AsString(m["_id"]),
     number |-> AsString(m["_id"]),
     date1 |-> d1,
     date2 |-> IF k2 = "" THEN <<>> ELSE AsTime(m[k2])]

\* One branch of the if/else-if chain: the type code and the fields read from
\* sub-document m.  d1 and d2 are the pointers taken from keys k1 and k2
\* (k2 = "" when the branch reads no second date).
Branch(code, m, d1, k2) ==
    [type |-> code,
     objectId |-> AsString(m["_id"]),
     number |-> AsString(m["number"]),
     date1 |-> d1,
     date2 |-> IF k2 = "" THEN <<>> ELSE AsTime(m[k2])]

\* The chain with the two EDI branches tested first.
resolveChargeEdiFirst(c) ==
    IF c.sub["edi_return_invoice"] # <<>>
    THEN LET m == c.sub["edi_return_invoice"][1]
         IN  Branch(2, m, AsTime(m["date"]), "")
    ELSE IF c.sub["edi_attorney"] # <<>>
    THEN LET m == c.sub["edi_attorney"][1]
         IN  Branch(4, m, AsTime(m["start_date"]), "end_date")
    ELSE IF c.sub["roaming_invoice"] # <<>>
    THEN LET m == c.sub["roaming_invoice"][1]
         IN  Branch(3, m, AsTimeOrRFC3339(m["date"]), "")
    ELSE IF c.sub["roaming_contract"] # <<>>
    THEN LET m == c.sub["roaming_contract"][1]
         IN  Branch(7, m, AsTime(m["date"]), "")
    ELSE IF c.sub["roaming_waybill"] # <<>>
    THEN LET m == c.sub["roaming_waybill"][1]
         IN  Branch(10, m, AsTime(m["date"]), "")
    ELSE IF c.sub["roaming_act"] # <<>>
    THEN LET m == c.sub["roaming_act"][1]
         IN  Branch(9, m, AsTime(m["date"]), "")
    ELSE IF c.sub["roaming_verification_act"] # <<>>
    THEN LET m == c.sub["roaming_verification_act"][1]
         IN  Branch(8, m, AsTime(m["date"]), "")
    ELSE IF c.sub["roaming_empowerment"] # <<>>
    THEN LET m == c.sub["roaming_empowerment"][1]
         IN  Branch(11, m, AsTime(m["start_date"]), "end_date")
    ELSE [type |-> 0, objectId |-> <<>>, number |-> <<>>,
          date1 |-> <<>>, date2 |-> <<>>]

\* migrateCharges, the if/else-if chain over the eight sub-documents: the
\* first one present decides type, object id, number and the date pointers.
resolveCharge(c) ==
    IF c.sub["roaming_invoice"] # <<>>
    THEN LET m == c.sub["roaming_invoice"][1]
         IN  Branch(3, m, AsTimeOrRFC3339(m["date"]), "")
    ELSE IF c.sub["roaming_contract"] # <<>>
    THEN LET m == c.sub["roaming_contract"][1]
         IN  Branch(7, m, AsTime(m["date"]), "")
    ELSE IF c.sub["roaming_waybill"] # <<>>
    THEN LET m == c.sub["roaming_waybill"][1]
         IN  Branch(10, m, AsTime(m["date"]), "")
    ELSE IF c.sub["roaming_act"] # <<>>
    THEN LET m == c.sub["roaming_act"][1]
         IN  Branch(9, m, AsTime(m["date"]), "")
    ELSE IF c.sub["roaming_verification_act"] # <<>>
    THEN LET m == c.sub["roaming_verification_act"][1]
         IN  Branch(8, m, AsTime(m["date"]), "")
    ELSE IF c.sub["roaming_empowerment"] # <<>>
    THEN LET m == c.sub["roaming_empowerment"][1]
         IN  Branch(11, m, AsTime(m["start_date"]), "end_date")
    ELSE IF c.sub["edi_return_invoice"] # <<>>
    THEN LET m == c.sub["edi_return_invoice"][1]
         IN  Branch(2, m, AsTime(m["date"]), "")
    ELSE IF c.sub["edi_attorney"] # <<>>
    THEN LET m == c.sub["edi_attorney"][1]
         IN  Branch(4, m, AsTime(m["start_date"]), "end_date")
    ELSE [type |-> 0, objectId |-> <<>>, number |-> <<>>,
          date1 |-> <<>>, date2 |-> <<>>]

\* A resolver without the created_at fallback.
date1FallbackNone(date1, createdAt) == date1

\* "If no dates were found from document fields, use created_at as fallback".
date1Fallback(date1, createdAt) ==
    IF date1 = <<>> THEN <<createdAt>> ELSE date1

\* The Charge row built from a decoded document.
chargeRow(c) ==
    LET r == resolveCharge(c)
    IN  [id |-> Hex(c.id),
         created_at |-> c.created_at,
         type |-> r.type,
         object_id |-> r.objectId,
         number |-> r.number,
         date1 |-> validatePtr(date1Fallback(r.date1, c.created_at)),
         date2 |-> validatePtr(r.date2)]

\* ------------------------------------------------------- the loop bodies
\* What one pass of a migrator's cursor loop does with a decoded document:
\* the store after it, the increments of moved/skipped and of the child
\* counters, the error it returns (nil: the loop goes on), the number of
\* insert statements it issued and of ObjectIDs it minted.
\* o.check: the existence query fails; o.ins: which insert statement of the
\* document the store refuses (0: none); o.now: time.Now().
NoChild == [t \in ChildTables |-> 0]

Res(d, mv, sk, ch, e, n, minted) ==
    [dest |-> d, moved |-> mv, skipped |-> sk, child |-> ch, err |-> e,
     inserts |-> n, minted |-> minted]

\* An insert error that is dropped instead of returned.
InsertIgnored(table, id, e) == <<>>

\* fmt.Errorf("... %s insert failed: %w", id, err), nil for no error.
InsertFailed(table, id, e) ==
    IF e = <<>> THEN <<>>
    ELSE <<[op |-> "insert", table |-> table, id |-> id, why |-> e[1]]>>

\* The number of Create calls a CreateEach result stands for.
Issued(c) == c.done + (IF c.err # <<>> THEN 1 ELSE 0)

\* ParentOnly counting a skipped document as moved.
ParentOnlySkipCountedAsMoved(d, table, row, o) ==
    IF checkRecordExists(d, table, row.id, o.check)
    THEN Res(d, 1, 0, NoChild, <<>>, 0, 0)
    ELSE LET r == Create(d, table, row, FALSE, o.ins = 1)
         IN  IF r.err # <<>>
             THEN Res(d, 0, 0, NoChild, InsertFailed(table, row.id, r.err), 1, 0)
             ELSE Res(r.dest, 1, 0, NoChild, <<>>, 1, 0)

\* The pattern of the migrators without child tables: skip when the row
\* exists, else insert it and count it as moved.
ParentOnly(d, table, row, o) ==
    IF checkRecordExists(d, table, row.id, o.check)
    THEN Res(d, 0, 1, NoChild, <<>>, 0, 0)
    ELSE LET r == Create(d, table, row, FALSE, o.ins = 1)
         IN  IF r.err # <<>>
             THEN Res(d, 0, 0, NoChild, InsertFailed(table, row.id, r.err), 1, 0)
             ELSE Res(r.dest, 1, 0, NoChild, <<>>, 1, 0)

servicesBody(d, doc, o, oid) ==
    ParentOnly(d, "services",
               [id |-> Hex(doc.id), created_at |-> doc.created_at,
                code |-> doc.code], o)

organizationsBody(d, doc, o, oid) ==
    LET orgID == Hex(doc.id)
        uses == "organization_service_demo_uses"
        demos == [j \in 1..Len(doc.service_demo_uses) |->
                    [organization_id |-> orgID,
                     service_code |-> doc.service_demo_uses[j],
                     used_at |-> doc.created_at]]
        org == [id |-> orgID,
                created_at |-> doc.created_at,
                updated_at |-> doc.updated_at,
                deleted_at |-> validatePtr(doc.deleted_at),
                offer_date |-> validatePtr(doc.offer_date)]
    IN  IF checkRecordExists(d, "organizations", orgID, o.check)
        THEN LET c == CreateEach(d, uses, demos, TRUE, o.ins, 1)
             IN  Res(c.dest, 0, 1, [NoChild EXCEPT ![uses] = c.done],
                     InsertFailed(uses, orgID, c.err), Issued(c), 0)
        ELSE LET r == Create(d, "organizations", org, FALSE, o.ins = 1)
             IN  IF r.err # <<>>
                 THEN Res(d, 0, 0, NoChild,
                          InsertFailed("organizations", orgID, r.err), 1, 0)
                 ELSE LET c == CreateEach(r.dest, uses, demos, TRUE, o.ins, 2)
                      IN  Res(c.dest, IF c.err = <<>> THEN 1 ELSE 0, 0,
                              [NoChild EXCEPT ![uses] = c.done],
                              InsertFailed(uses, orgID, c.err), 1 + Issued(c), 0)

\* The child loops of migratePackages, the same on both paths: the items and
\* then the bonus packages, every insert with the on-conflict clause.  The
\* PackageItem rows carry the zero value "" in their primary key column id,
\* which the code never sets.
packageChildren(d, doc, pkgID, failAt, idx) ==
    LET items == [j \in 1..Len(doc.items) |->
                    [id |-> <<>>, package_id |-> pkgID,
                     code |-> doc.items[j].code]]
        bonus == [j \in 1..Len(doc.bonus) |->
                    [package_id |-> pkgID,
                     bonus_package_id |-> Hex(doc.bonus[j])]]
        ci == CreateEach(d, "package_items", items, TRUE, failAt, idx)
    IN  IF ci.err # <<>>
        THEN [dest |-> ci.dest, items |-> ci.done, bonus |-> 0,
              err |-> InsertFailed("package_items", pkgID, ci.err),
              inserts |-> Issued(ci)]
        ELSE LET cb == CreateEach(ci.dest, "package_activation_bonus_packages",
                                  bonus, TRUE, failAt, idx + Len(items))
             IN  [dest |-> cb.dest, items |-> ci.done, bonus |-> cb.done,
                  err |-> InsertFailed("package_activation_bonus_packages",
                                       pkgID, cb.err),
                  inserts |-> Issued(ci) + Issued(cb)]

packagesBody(d, doc, o, oid) ==
    LET pkgID == Hex(doc.id)
        pkg == [id |-> pkgID, created_at |-> doc.created_at,
                service_code |-> doc.service_code]
        counted(c) == [NoChild EXCEPT
                         !["package_items"] = c.items,
                         !["package_activation_bonus_packages"] = c.bonus]
    IN  IF checkRecordExists(d, "packages", pkgID, o.check)
        THEN LET c == packageChildren(d, doc, pkgID, o.ins, 1)
             IN  Res(c.dest, 0, 1, counted(c), c.err, c.inserts, 0)
        ELSE LET r == Create(d, "packages", pkg, FALSE, o.ins = 1)
             IN  IF r.err # <<>>
                 THEN Res(d, 0, 0, NoChild,
                          InsertFailed("packages", pkgID, r.err), 1, 0)
                 ELSE LET c == packageChildren(r.dest, doc, pkgID, o.ins, 2)
                      IN  Res(c.dest, IF c.err = <<>> THEN 1 ELSE 0, 0,
                              counted(c), c.err, 1 + c.inserts, 0)

\* primitive.NewObjectID(): the n-th identifier minted on this destination.
NewObjectID(n) == Oid2(255, n)

\* migrateBoughtPackages writing the items of a skipped parent as well.
boughtPackagesBodyBackfill(d, doc, o, oid) ==
    LET boughtPkgID == Hex(doc.id)
        bitems == "bought_package_items"
        boughtPkg == [id |-> boughtPkgID,
                      organization_id |-> Hex(doc.organization_id),
                      package_id |-> Hex(doc.package_id),
                      bought_at |-> doc.bought_at,
                      expires_at |-> doc.expires_at,
                      is_active |-> ~doc.is_deleted]
        items == [j \in 1..Len(doc.package_items) |->
                    [id |-> Hex(NewObjectID(oid + j)),
                     bought_package_id |-> boughtPkgID,
                     code |-> doc.package_items[j].code]]
    IN  IF checkRecordExists(d, "bought_packages", boughtPkgID, o.check)
        THEN LET c == CreateEach(d, bitems, items, FALSE, o.ins, 1)
             IN  Res(c.dest, 0, 1, [NoChild EXCEPT ![bitems] = c.done],
                     InsertFailed(bitems, boughtPkgID, c.err),
                     Issued(c), Issued(c))
        ELSE LET r == Create(d, "bought_packages", boughtPkg, FALSE, o.ins = 1)
             IN  IF r.err # <<>>
                 THEN Res(d, 0, 0, NoChild,
                          InsertFailed("bought_packages", boughtPkgID, r.err),
                          1, 0)
                 ELSE LET c == CreateEach(r.dest, bitems, items, FALSE, o.ins, 2)
                      IN  Res(c.dest, 1, 0, [NoChild EXCEPT ![bitems] = c.done],
                              InsertFailed(bitems, boughtPkgID, c.err),
                              1 + Issued(c), Issued(c))

boughtPackagesBody(d, doc, o, oid) ==
    LET boughtPkgID == Hex(doc.id)
        bitems == "bought_package_items"
        boughtPkg == [id |-> boughtPkgID,
                      organization_id |-> Hex(doc.organization_id),
                      package_id |-> Hex(doc.package_id),
                      bought_at |-> doc.bought_at,
                      expires_at |-> doc.expires_at,
                      is_active |-> ~doc.is_deleted]
        items == [j \in 1..Len(doc.package_items) |->
                    [id |-> Hex(NewObjectID(oid + j)),
                     bought_package_id |-> boughtPkgID,
                     code |-> doc.package_items[j].code]]
    IN  IF checkRecordExists(d, "bought_packages", boughtPkgID, o.check)
        THEN Res(d, 0, 1, NoChild, <<>>, 0, 0)
        ELSE LET r == Create(d, "bought_packages", boughtPkg, FALSE, o.ins = 1)
             IN  IF r.err # <<>>
                 THEN Res(d, 0, 0, NoChild,
                          InsertFailed("bought_packages", boughtPkgID, r.err),
                          1, 0)
                 ELSE LET c == CreateEach(r.dest, bitems, items, FALSE, o.ins, 2)
                      IN  Res(c.dest, 1, 0, [NoChild EXCEPT ![bitems] = c.done],
                              InsertFailed(bitems, boughtPkgID, c.err),
                              1 + Issued(c), Issued(c))

chargesBody(d, doc, o, oid) == ParentOnly(d, "charges", chargeRow(doc), o)

paymentsBody(d, doc, o, oid) ==
    ParentOnly(d, "payments",
               [id |-> Hex(doc.id), created_at |-> doc.created_at], o)

\* The fallback chain of the mandatory payme_created_at column.
paymeCreatedAt(doc, now) ==
    IF validateDateTime(doc.payme_created_at) # <<>>
    THEN validateDateTime(doc.payme_created_at)[1]
    ELSE IF validateDateTime(doc.created_at) # <<>>
    THEN validateDateTime(doc.created_at)[1]
    ELSE now

paymeTransactionsBody(d, doc, o, oid) ==
    ParentOnly(d, "payme_transactions",
               [id |-> Hex(doc.id),
                created_at |-> doc.created_at,
                payme_created_at |-> paymeCreatedAt(doc, o.now),
                system_completed_at |-> validatePtr(doc.system_completed_at),
                system_canceled_at |-> validatePtr(doc.system_canceled_at)], o)

organizationBalanceBindingsBody(d, doc, o, oid) ==
    ParentOnly(d, "organization_balance_bindings",
               [id |-> Hex(doc.id), created_at |-> doc.created_at,
                deleted_at |-> validatePtr(doc.deleted_at)], o)

creditUpdatesBody(d, doc, o, oid) ==
    ParentOnly(d, "credit_updates",
               [id |-> Hex(doc.id), created_at |-> doc.created_at], o)

bankPaymentAutoApplyErrorsBody(d, doc, o, oid) ==
    ParentOnly(d, "bank_payments_auto_apply_errors",
               [id |-> Hex(doc.id), created_at |-> doc.created_at], o)

\* ------------------------------------------------------------ the source
\* The steps of migrateAll, in order: the name it logs and wraps errors with,
\* and the collection and parent table of the migrator.
Migrations == <<"services", "organizations", "packages", "bought-packages",
                "charges", "payments", "payme-transactions",
                "organization-balance-bindings", "credit-updates",
                "bank-payments-auto-apply-errors">>

Collections == <<"services", "organizations", "packages", "boughtPackages",
                 "charges", "payments", "paymeTransactions",
                 "organizationBalanceBindings", "creditUpdates",
                 "bankPaymentsAutoApplyErrors">>

ParentTables == <<"services", "organizations", "packages", "bought_packages",
                  "charges", "payments", "payme_transactions",
                  "organization_balance_bindings", "credit_updates",
                  "bank_payments_auto_apply_errors">>

NSteps == Len(Migrations)

T2023 == Time(2023, 5, 1, 0)
T2024 == Time(2024, 5, 1, 0)
T1969 == Time(1969, 12, 31, 86399)
T2200 == Time(2200, 1, 1, 0)

\* "2022-03-04T05:06:07Z"
S2022 == <<"2", "0", "2", "2", "-", "0", "3", "-", "0", "4", "T",
           "0", "5", ":", "0", "6", ":", "0", "7", "Z">>

\* "2023-02-30T00:00:00Z": no such day.
SBadDay == <<"2", "0", "2", "3", "-", "0", "2", "-", "3", "0", "T",
             "0", "0", ":", "0", "0", ":", "0", "0", "Z">>

\* "01.05.2023"
SNotRFC == <<"0", "1", ".", "0", "5", ".", "2", "0", "2", "3">>

\* What time.Now() may answer during a run.
NowTimes == {Time(2026, 11, 1, 0), Time(2026, 11, 1, 1)}

NoSubs == [n \in SubNames |-> <<>>]

\* A sub-document with a string _id and number and the given date values.
SubDoc(id, number, date, start, end) ==
    [k \in MapKeys |->
        IF k = "_id" THEN Val("string", id, ZeroTime)
        ELSE IF k = "number" THEN Val("string", number, ZeroTime)
        ELSE IF k = "date" THEN date
        ELSE IF k = "start_date" THEN start
        ELSE end]

TimeVal(t) == Val("time", <<>>, t)

StrVal(s) == Val("string", s, ZeroTime)

\* A document that cur.Decode rejects carries the field "malformed".
Decodes(doc) == "malformed" \notin DOMAIN doc

\* The end-to-end data set: 3 services, 2 organizations (one with 2 demo
\* uses), 1 package with 3 items and 1 bonus package, and one document in
\* each of the other collections.
DataA ==
    [c \in {Collections[i] : i \in 1..NSteps} |->
      IF c = "services"
      THEN <<[id |-> Oid(1), created_at |-> T2023, code |-> "A"],
             [id |-> Oid(2), created_at |-> T2023, code |-> "B"],
             [id |-> Oid(3), created_at |-> T2024, code |-> "C"]>>
      ELSE IF c = "organizations"
      THEN <<[id |-> Oid(11), created_at |-> T2023, updated_at |-> T2024,
              deleted_at |-> <<>>, offer_date |-> <<T2023>>,
              service_demo_uses |-> <<"A", "B">>],
             [id |-> Oid(12), created_at |-> T2023, updated_at |-> T2023,
              deleted_at |-> <<T2200>>, offer_date |-> <<>>,
              service_demo_uses |-> <<>>]>>
      ELSE IF c = "packages"
      THEN <<[id |-> Oid(21), created_at |-> T2023, service_code |-> "A",
              items |-> <<[code |-> 1], [code |-> 2], [code |-> 3]>>,
              bonus |-> <<Oid(29)>>]>>
      ELSE IF c = "boughtPackages"
      THEN <<[id |-> Oid(31), organization_id |-> Oid(11),
              package_id |-> Oid(21), bought_at |-> T2023,
              expires_at |-> T2024, is_deleted |-> FALSE,
              package_items |-> <<[code |-> 1], [code |-> 2]>>]>>
      ELSE IF c = "charges"
      THEN <<[id |-> Oid(41), created_at |-> T2023,
              sub |-> [NoSubs EXCEPT !["roaming_invoice"] =
                         <<SubDoc(<<"i", "1">>, <<"n", "1">>, TimeVal(T2024),
                                  Missing, Missing)>>]]>>
      ELSE IF c = "payments"
      THEN <<[id |-> Oid(51), created_at |-> T2023]>>
      ELSE IF c = "paymeTransactions"
      THEN <<[id |-> Oid(61), created_at |-> T2023,
              payme_created_at |-> ZeroTime,
              system_completed_at |-> <<T2024>>,
              system_canceled_at |-> <<>>]>>
      ELSE IF c = "organizationBalanceBindings"
      THEN <<[id |-> Oid(71), created_at |-> T2023, deleted_at |-> <<>>]>>
      ELSE IF c = "creditUpdates"
      THEN <<[id |-> Oid(81), created_at |-> T2023]>>
      ELSE <<[id |-> Oid(91), created_at |-> T2023]>>]

\* A data set with the irregular documents a denormalized store holds:
\* repeated embedded entries, timestamps outside [1970, 2100], string-typed
\* dates, and a credit update that does not decode.
DataB ==
    [c \in {Collections[i] : i \in 1..NSteps} |->
      IF c = "services"
      THEN <<[id |-> Oid(1), created_at |-> T2200, code |-> "A"]>>
      ELSE IF c = "organizations"
      THEN <<[id |-> Oid(11), created_at |-> T1969, updated_at |-> T2023,
              deleted_at |-> <<T2023>>, offer_date |-> <<T1969>>,
              service_demo_uses |-> <<"A", "A">>]>>
      ELSE IF c = "packages"
      THEN <<[id |-> Oid(21), created_at |-> T2023, service_code |-> "A",
              items |-> <<[code |-> 1], [code |-> 1]>>,
              bonus |-> <<Oid(29), Oid(29)>>]>>
      ELSE IF c = "boughtPackages"
      THEN <<[id |-> Oid(31), organization_id |-> NilObjectID,
              package_id |-> Oid(21), bought_at |-> T2200,
              expires_at |-> T2200, is_deleted |-> TRUE,
              package_items |-> <<[code |-> 1]>>]>>
      ELSE IF c = "charges"
      THEN <<[id |-> Oid(41), created_at |-> T2200, sub |-> NoSubs],
             [id |-> Oid(42), created_at |-> T2023,
              sub |-> [NoSubs EXCEPT
                         !["roaming_contract"] =
                            <<SubDoc(<<"c", "2">>, <<"n", "2">>, StrVal(S2022),
                                     Missing, Missing)>>,
                         !["edi_attorney"] =
                            <<SubDoc(<<"a", "2">>, <<"m", "2">>, Missing,
                                     TimeVal(T2024), TimeVal(T2200))>>]]>>
      ELSE IF c = "payments"
      THEN <<[id |-> Oid(51), created_at |-> T1969]>>
      ELSE IF c = "paymeTransactions"
      THEN <<[id |-> Oid(61), created_at |-> T2200,
              payme_created_at |-> T1969,
              system_completed_at |-> <<T2200>>,
              system_canceled_at |-> <<ZeroTime>>]>>
      ELSE IF c = "organizationBalanceBindings"
      THEN <<[id |-> Oid(71), created_at |-> T2023, deleted_at |-> <<T2200>>]>>
      ELSE IF c = "creditUpdates"
      THEN <<[id |-> Oid(81), created_at |-> T2023],
             [id |-> Oid(82), malformed |-> TRUE]>>
      ELSE <<[id |-> Oid(91), created_at |-> T2023]>>]

Datasets == {DataA, DataB}

\* ------------------------------------------------------------ the counts
\* The tables a migrator counts before and after its loop: its parent table
\* and then its child tables.
CountedTables(k) ==
    IF k = 2 THEN <<"organizations", "organization_service_demo_uses">>
    ELSE IF k = 3 THEN <<"packages", "package_items",
                         "package_activation_bonus_packages">>
    ELSE IF k = 4 THEN <<"bought_packages", "bought_package_items">>
    ELSE <<ParentTables[k]>>

\* No step has logged anything yet.
NoCounts == [mongo |-> 0, before |-> <<>>, after |-> <<>>]

\* The "mongo=%d mysql_before=%d" lines of step k; failed holds the count
\* queries that fail: 0 for mongoCount, i for the i-th mysqlCount.
StartCounts(s, d, k, failed) ==
    [mongo |-> mongoCount(s, Collections[k], 0 \in failed),
     before |-> [i \in 1..Len(CountedTables(k)) |->
                   mysqlCount(d, CountedTables(k)[i], i \in failed)],
     after |-> <<>>]

\* The "mysql_after=%d" values of step k.
AfterCounts(d, k, failed) ==
    [i \in 1..Len(CountedTables(k)) |->
       mysqlCount(d, CountedTables(k)[i], i \in failed)]

\* ------------------------------------------------------------- the state
VARIABLES
    src,         \* the source database: collection -> documents in cursor order
    dest,        \* the destination database: table -> rows in insertion order
    pc,          \* where the process is: "main", "connected", "migrateAll",
                 \* "in_step" (inside a migrator's cursor loop), "exit0", "exit1"
    run,         \* how many times the program has been invoked
    stepIdx,     \* index in Migrations of the step last started (0: none)
    cursor,      \* per step, the documents its cursor delivered in this run
    moved,       \* the running migrator's counters
    skipped,
    childMoved,  \* child table -> demoUsesMoved / itemsMoved / bonusMoved
    started,     \* the "Starting migration" lines of this run
    completed,   \* the "Completed migration" lines of this run
    err,         \* what main's log.Fatalf reports: nil or the error
    faults,      \* store calls that failed so far
    dropFails,   \* DropTable calls that failed so far
    nextOid,     \* ObjectIDs minted so far
    counts       \* the counts the running step has logged

vars == <<src, dest, pc, run, stepIdx, cursor, moved, skipped, childMoved,
          started, completed, err, faults, dropFails, nextOid, counts>>

Init ==
    /\ src \in Datasets
    /\ dest = EmptyDB
    /\ pc = "main"
    /\ run = 1
    /\ stepIdx = 0
    /\ cursor = [k \in 1..NSteps |-> 0]
    /\ moved = 0
    /\ skipped = 0
    /\ childMoved = NoChild
    /\ started = <<>>
    /\ completed = <<>>
    /\ err = <<>>
    /\ faults = 0
    /\ dropFails = 0
    /\ nextOid = 0
    /\ counts = NoCounts

\* ------------------------------------------------------------ the process
\* The subsets of S with at most n elements.
RECURSIVE SubsetsUpTo(_, _)
SubsetsUpTo(S, n) ==
    IF n <= 0 \/ S = {} THEN {{}}
    ELSE LET x == CHOOSE y \in S : TRUE
             rest == S \ {x}
         IN  SubsetsUpTo(rest, n) \cup {T \cup {x} : T \in SubsetsUpTo(rest, n - 1)}

\* The program is started (again) on the same two stores.
Invoke ==
    /\ pc \in {"exit0", "exit1"}
    /\ run < MaxRuns
    /\ pc' = "main"
    /\ run' = run + 1
    /\ stepIdx' = 0
    /\ cursor' = [k \in 1..NSteps |-> 0]
    /\ moved' = 0
    /\ skipped' = 0
    /\ childMoved' = NoChild
    /\ started' = <<>>
    /\ completed' = <<>>
    /\ err' = <<>>
    /\ counts' = NoCounts
    /\ UNCHANGED <<src, dest, faults, dropFails, nextOid>>

\* main, up to the two connections: log.Fatalf when either fails.
Connect ==
    /\ pc = "main"
    /\ \/ /\ pc' = "connected"
          /\ UNCHANGED <<err, faults>>
       \/ /\ faults < MaxFaults
          /\ \E store \in {"MongoDB", "MySQL"} :
                err' = <<[fatal |-> "Failed to connect", store |-> store]>>
          /\ pc' = "exit1"
          /\ faults' = faults + 1
    /\ UNCHANGED <<src, dest, run, stepIdx, cursor, moved, skipped, childMoved,
                   started, completed, dropFails, nextOid, counts>>

\* Migrate: DropTable for every table, its error ignored, then AutoMigrate.
\* kept: the tables whose DropTable failed, which keep their rows.
MigrateResult(d, kept) == [t \in TableSet |-> IF t \in kept THEN d[t] ELSE <<>>]

Migrate ==
    /\ pc = "connected"
    /\ \E kept \in SubsetsUpTo({t \in TableSet : dest[t] # <<>>},
                               MaxDropFails - dropFails) :
          /\ dest' = MigrateResult(dest, kept)
          /\ dropFails' = dropFails + Cardinality(kept)
    /\ \/ /\ pc' = "migrateAll"
          /\ UNCHANGED <<err, faults>>
       \/ /\ faults < MaxFaults
          /\ err' = <<[fatal |-> "Failed to run migrations"]>>
          /\ pc' = "exit1"
          /\ faults' = faults + 1
    /\ UNCHANGED <<src, run, stepIdx, cursor, moved, skipped, childMoved,
                   started, completed, nextOid, counts>>

\* fmt.Errorf("migration %s failed: %w", migration.name, err), which main
\* reports with log.Fatalf("Migration failed: %v", err).
wrapNoName(name, cause) ==
    [fatal |-> "Migration failed", migration |-> "", cause |-> cause]

wrap(name, cause) ==
    [fatal |-> "Migration failed", migration |-> name, cause |-> cause]

\* migrateAll's loop, between two steps: start the next migration (the
\* migrator counts and logs the source collection and its tables, then
\* opens its cursor with Find, whose error it returns), or return nil after
\* the last one, and main exits with status 0.
migrateAll ==
    /\ pc = "migrateAll"
    /\ \/ /\ stepIdx = NSteps
          /\ pc' = "exit0"
          /\ UNCHANGED <<stepIdx, moved, skipped, childMoved, started, err,
                         faults, counts>>
       \/ /\ stepIdx < NSteps
          /\ stepIdx' = stepIdx + 1
          /\ started' = Append(started, Migrations[stepIdx + 1])
          /\ moved' = 0
          /\ skipped' = 0
          /\ childMoved' = NoChild
          /\ \E failed \in SubsetsUpTo(0..Len(CountedTables(stepIdx + 1)),
                                       MaxFaults - faults) :
                /\ counts' = StartCounts(src, dest, stepIdx + 1, failed)
                /\ \/ /\ pc' = "in_step"
                      /\ err' = err
                      /\ faults' = faults + Cardinality(failed)
                   \/ /\ faults + Cardinality(failed) < MaxFaults
                      /\ err' = <<wrap(Migrations[stepIdx + 1],
                                       [op |-> "find"])>>
                      /\ pc' = "exit1"
                      /\ faults' = faults + Cardinality(failed) + 1
    /\ UNCHANGED <<src, dest, run, cursor, completed, dropFails, nextOid>>

\* What the environment may do to the calls of one loop pass.
Outcomes(k) ==
    [check : BOOLEAN, ins : 0..6,
     now : IF k = 7 THEN NowTimes ELSE {ZeroTime}]

Cost(o) == (IF o.check THEN 1 ELSE 0) + (IF o.ins # 0 THEN 1 ELSE 0)

\* One pass of the loop "for cur.Next(ctx)" of step k: cur.Next delivers the
\* next document, Decode and the body run; an error returns from the
\* migrator, through migrateAll, to main.
Iterate(k, Body(_, _, _, _)) ==
    /\ cursor[k] < Len(src[Collections[k]])
    /\ LET doc == src[Collections[k]][cursor[k] + 1]
       IN  /\ cursor' = [cursor EXCEPT ![k] = @ + 1]
           /\ IF ~Decodes(doc)
              THEN /\ err' = <<wrap(Migrations[k], [op |-> "decode"])>>
                   /\ pc' = "exit1"
                   /\ UNCHANGED <<dest, moved, skipped, childMoved, faults,
                                  nextOid>>
              ELSE \E o \in Outcomes(k) :
                     /\ faults + Cost(o) <= MaxFaults
                     /\ LET r == Body(dest, doc, o, nextOid)
                        IN  /\ o.ins <= r.inserts
                            /\ dest' = r.dest
                            /\ moved' = moved + r.moved
                            /\ skipped' = skipped + r.skipped
                            /\ childMoved' =
                                 [t \in ChildTables |-> childMoved[t] + r.child[t]]
                            /\ nextOid' = nextOid + r.minted
                            /\ faults' = faults + Cost(o)
                            /\ IF r.err # <<>>
                               THEN /\ err' = <<wrap(Migrations[k], r.err[1])>>
                                    /\ pc' = "exit1"
                               ELSE UNCHANGED <<err, pc>>
    /\ UNCHANGED <<src, run, stepIdx, started, completed, dropFails, counts>>

\* cur.Next returns false, because the cursor is exhausted or because the
\* source store failed (cur.Err() is not looked at): the loop ends, the
\* migrator counts and logs its tables, returns nil, and migrateAll logs the
\* step as completed.
Finish(k) ==
    /\ \E stopped \in {0, 1} :
          /\ stopped = 0 <=> cursor[k] = Len(src[Collections[k]])
          /\ \E failed \in SubsetsUpTo(1..Len(CountedTables(k)),
                                       MaxFaults - faults - stopped) :
                /\ faults + stopped <= MaxFaults
                /\ faults' = faults + stopped + Cardinality(failed)
                /\ counts' = [counts EXCEPT
                                !.after = <<AfterCounts(dest, k, failed)>>]
    /\ completed' = Append(completed, Migrations[k])
    /\ pc' = "migrateAll"
    /\ UNCHANGED <<src, dest, run, stepIdx, cursor, moved, skipped, childMoved,
                   started, err, dropFails, nextOid>>

Migrator(k, Body(_, _, _, _)) ==
    /\ pc = "in_step"
    /\ stepIdx = k
    /\ (Iterate(k, Body) \/ Finish(k))

migrateServices == Migrator(1, servicesBody)

migrateOrganizations == Migrator(2, organizationsBody)

migratePackages == Migrator(3, packagesBody)

migrateBoughtPackages == Migrator(4, boughtPackagesBody)

migrateCharges == Migrator(5, chargesBody)

migratePayments == Migrator(6, paymentsBody)

migratePaymeTransactions == Migrator(7, paymeTransactionsBody)

migrateOrganizationBalanceBindings == Migrator(8, organizationBalanceBindingsBody)

migrateCreditUpdates == Migrator(9, creditUpdatesBody)

migrateBankPaymentAutoApplyErrors == Migrator(10, bankPaymentAutoApplyErrorsBody)

Next ==
    \/ Invoke
    \/ Connect
    \/ Migrate
    \/ migrateAll
    \/ migrateServices
    \/ migrateOrganizations
    \/ migratePackages
    \/ migrateBoughtPackages
    \/ migrateCharges
    \/ migratePayments
    \/ migratePaymeTransactions
    \/ migrateOrganizationBalanceBindings
    \/ migrateCreditUpdates
    \/ migrateBankPaymentAutoApplyErrors

Spec == Init /\ [][Next]_vars

\* ------------------------------------- the charge resolver on its inputs
\* The sub-documents in the order the decode struct declares them.
SubDecl == <<"edi_return_invoice", "edi_attorney", "roaming_invoice",
            "roaming_contract", "roaming_waybill", "roaming_act",
            "roaming_verification_act", "roaming_empowerment">>

SubIdx(n) == CHOOSE i \in 1..Len(SubDecl) : SubDecl[i] = n

\* A well-formed sub-document whose every field names the sub-document.
Tagged(n) ==
    SubDoc(<<"x", DigitChars[SubIdx(n) + 1]>>, <<"n", DigitChars[SubIdx(n) + 1]>>,
           TimeVal(Time(2000 + SubIdx(n), 1, 1, 0)),
           TimeVal(Time(2010 + SubIdx(n), 1, 1, 0)),
           TimeVal(Time(2020 + SubIdx(n), 1, 1, 0)))

\* The dynamic types and values a date key is tried with.
DateVals == {TimeVal(T2023), TimeVal(T2200), StrVal(S2022), StrVal(SBadDay),
             StrVal(SNotRFC), Missing, Val("other", <<>>, ZeroTime)}

EndVals == {TimeVal(T2024), StrVal(S2022), Missing}

IdVals == {StrVal(<<"f", "1">>), Val("other", <<>>, ZeroTime)}

NumberVals == {StrVal(<<"f", "2">>), Missing}

\* The sub-documents under test: every typing of the fields the resolver reads.
Variants ==
    {[k \in MapKeys |->
        IF k = "_id" THEN id
        ELSE IF k = "number" THEN nu
        ELSE IF k \in {"date", "start_date"} THEN da
        ELSE en] :
     id \in IdVals, nu \in NumberVals, da \in DateVals, en \in EndVals}

\* Charge documents: every combination of present sub-documents, each
\* well-formed; and every variant of one sub-document, alone or beside one
\* other, with a valid and an out-of-range created_at.
ChargeDocs ==
    {[id |-> Oid(41), created_at |-> ca,
      sub |-> [n \in SubNames |-> IF n \in P THEN <<Tagged(n)>> ELSE <<>>]] :
     P \in SUBSET SubNames, ca \in {T2023, T2200, T1969}}
    \cup
    {[id |-> Oid(41), created_at |-> ca,
      sub |-> [n \in SubNames |->
                 IF n = f THEN <<v>>
                 ELSE IF n = g THEN <<Tagged(n)>>
                 ELSE <<>>]] :
     f \in SubNames, g \in SubNames, v \in Variants, ca \in {T2023, T2200}}

\* migrateCharges reached with one charge in the source, the earlier steps
\* having found their collections empty.
InitCharges ==
    /\ \E doc \in ChargeDocs :
          src = [c \in {Collections[i] : i \in 1..NSteps} |->
                   IF c = "charges" THEN <<doc>> ELSE <<>>]
    /\ dest = EmptyDB
    /\ pc = "in_step"
    /\ run = 1
    /\ stepIdx = 5
    /\ cursor = [k \in 1..NSteps |-> 0]
    /\ moved = 0
    /\ skipped = 0
    /\ childMoved = NoChild
    /\ started = SubSeq(Migrations, 1, 5)
    /\ completed = SubSeq(Migrations, 1, 4)
    /\ err = <<>>
    /\ faults = MaxFaults
    /\ dropFails = MaxDropFails
    /\ nextOid = 0
    /\ counts = StartCounts(src, dest, 5, {})

NextCharges == migrateCharges

SpecCharges == InitCharges /\ [][NextCharges]_vars

\* ---------------------------------- the sanitizer on payme transactions
\* Timestamps around the two limits of validateDateTime.
T1970 == Time(1970, 1, 1, 0)

T2100 == Time(2100, 12, 31, 86399)

T2101 == Time(2101, 1, 1, 0)

SanitizerTimes == {ZeroTime, T1969, T1970, T2023, T2100, T2101, T2200}

SanitizerPtrs == {<<>>} \cup {<<t>> : t \in SanitizerTimes}

\* The payme-transaction documents: every combination of the four
\* timestamps the migrator reads.
PaymeDocs ==
    {[id |-> Oid(61), created_at |-> ca, payme_created_at |-> pca,
      system_completed_at |-> done, system_canceled_at |-> canc] :
       ca \in SanitizerTimes, pca \in SanitizerTimes,
       done \in SanitizerPtrs, canc \in SanitizerPtrs}

\* migratePaymeTransactions reached with one document in the source, the
\* earlier steps having found their collections empty.
InitPayme ==
    /\ \E doc \in PaymeDocs :
          src = [c \in {Collections[i] : i \in 1..NSteps} |->
                   IF c = "paymeTransactions" THEN <<doc>> ELSE <<>>]
    /\ dest = EmptyDB
    /\ pc = "in_step"
    /\ run = 1
    /\ stepIdx = 7
    /\ cursor = [k \in 1..NSteps |-> 0]
    /\ moved = 0
    /\ skipped = 0
    /\ childMoved = NoChild
    /\ started = SubSeq(Migrations, 1, 7)
    /\ completed = SubSeq(Migrations, 1, 6)
    /\ err = <<>>
    /\ faults = MaxFaults
    /\ dropFails = MaxDropFails
    /\ nextOid = 0
    /\ counts = StartCounts(src, dest, 7, {})

NextPayme == migratePaymeTransactions

SpecPayme == InitPayme /\ [][NextPayme]_vars

\* ================================================================ claims
\* What the claims speak of, stated without the program's operators.

IsPrefix(p, q) == Len(p) <= Len(q) /\ \A i \in 1..Len(p) : p[i] = q[i]

\* Step k's cursor delivered every document of its collection in this run.
Drained(k) == cursor[k] = Len(src[Collections[k]])

\* Step k of this run returned nil.
Returned(k) == k <= Len(completed) /\ completed[k] = Migrations[k]

\* ---------------------------------------------------------------- C1
\* C1: the steps of a run start in the order of the migration list, each at
\* most once; a step starts only after the one before it has drained its
\* source stream and returned success; rows are written to bought_packages
\* only after the organizations and packages steps completed, and to charges
\* only after the bought-packages step completed.
C1_StepsInOrderAfterDrain ==
    [][/\ IsPrefix(started', Migrations)
       /\ \A k \in 1..NSteps :
             k + 1 <= Len(started') => (Drained(k)' /\ Returned(k)')
       /\ (pc = "in_step" /\ dest'["bought_packages"] # dest["bought_packages"])
             => (Returned(2) /\ Returned(3))
       /\ (pc = "in_step" /\ dest'["charges"] # dest["charges"])
             => Returned(4)]_vars

\* The part of C1 that does not speak of draining: order, at most once, and
\* a step starts only after the one before it returned success.
C1_OrderOnly ==
    [][/\ IsPrefix(started', Migrations)
       /\ \A k \in 1..NSteps : k + 1 <= Len(started') => Returned(k)'
       /\ (pc = "in_step" /\ dest'["bought_packages"] # dest["bought_packages"])
             => (Returned(2) /\ Returned(3))
       /\ (pc = "in_step" /\ dest'["charges"] # dest["charges"])
             => Returned(4)]_vars

\* ---------------------------------------------------------------- C2
\* C2: when a step of migrateAll returns a failure, the error main reports
\* names that step (the one started last) and wraps the cause, and in that
\* run no further step starts and no further destination write happens: the
\* only thing that follows is a new invocation of the program.
C2_FailureStopsTheRun ==
    [][/\ (pc \in {"migrateAll", "in_step"} /\ pc' = "exit1")
             => /\ err' # <<>>
                /\ err'[1].fatal = "Migration failed"
                /\ stepIdx' = Len(started')
                /\ err'[1].migration = Migrations[Len(started')]
                /\ err'[1].cause.op \in {"find", "decode", "insert"}
       /\ pc = "exit1"
             => /\ dest' = dest
                /\ pc' = "main"
                /\ run' = run + 1
                /\ started' = <<>>]_vars

\* A step failed after its migrator had written rows, and the run stopped.
C2_Witness ==
    /\ pc = "exit1"
    /\ err # <<>>
    /\ err[1].fatal = "Migration failed"
    /\ stepIdx = 3
    /\ stepIdx < NSteps
    /\ Len(dest["packages"]) > 0

\* ---------------------------------------------------------------- C3
\* A loop pass of the running migrator on a document whose primary key is
\* already in the parent table.
RerunOfPresent ==
    /\ pc = "in_step"
    /\ cursor'[stepIdx] = cursor[stepIdx] + 1
    /\ LET doc == src[Collections[stepIdx]][cursor[stepIdx] + 1]
       IN  /\ Decodes(doc)
           /\ \E i \in 1..Len(dest[ParentTables[stepIdx]]) :
                 dest[ParentTables[stepIdx]][i].id = Hex(doc.id)

\* The pass ended with the parent insert refused.
ParentInsertRefused ==
    /\ err' # <<>>
    /\ err'[1].cause.op = "insert"
    /\ err'[1].cause.table = ParentTables[stepIdx]

\* C3 as claimed: a document whose primary key is already in the parent
\* table causes no parent insert, leaves the parent table unchanged and
\* increments skipped and not moved.
C3_PresentIsAlwaysSkipped ==
    [][RerunOfPresent
         => /\ dest'[ParentTables[stepIdx]] = dest[ParentTables[stepIdx]]
            /\ moved' = moved
            /\ skipped' = skipped + 1
            /\ ~ParentInsertRefused]_vars

\* C3 as amended: the parent table is unchanged and moved is not
\* incremented; the document is skipped without a parent insert, unless a
\* store call of the pass failed (the existence query), in which case the
\* parent insert is attempted and fails (as a duplicate key, or with an
\* error of its own), skipped is not incremented and the step aborts.
C3_PresentIsSkippedOrRefused ==
    [][RerunOfPresent
         => /\ dest'[ParentTables[stepIdx]] = dest[ParentTables[stepIdx]]
            /\ moved' = moved
            /\ \/ /\ skipped' = skipped + 1
                  /\ ~ParentInsertRefused
               \/ /\ faults' > faults
                  /\ skipped' = skipped
                  /\ ParentInsertRefused
                  /\ pc' = "exit1"]_vars

\* A document already present was skipped in a later run.
C3_Witness ==
    /\ run = 2
    /\ pc = "in_step"
    /\ stepIdx = 5
    /\ skipped = 1
    /\ moved = 0
    /\ Len(dest["charges"]) >= 1

\* ---------------------------------------------------------------- C4
\* The rows of child table t that reference parent id through column col.
ChildRowsOf(t, col, id) == {i \in 1..Len(dest[t]) : dest[t][i][col] = id}

\* The distinct embedded entries of a sequence.
Distinct(seq) == {seq[i] : i \in 1..Len(seq)}

\* C4: an insert-or-ignore of a child whose full column tuple is already in
\* the child table adds no row, so no child table holds the same tuple
\* twice; and once the organizations (packages) step has drained its stream,
\* every organization (package) with N embedded entries has exactly N child
\* rows, however often the migrator ran on this destination.
C4_ChildRowsOncePerEntry ==
    /\ \A t \in {"organization_service_demo_uses", "package_items",
                 "package_activation_bonus_packages"} :
          \A i, j \in 1..Len(dest[t]) : dest[t][i] = dest[t][j] => i = j
    /\ (Returned(2) /\ Drained(2))
          => \A n \in 1..Len(src["organizations"]) :
                LET o == src["organizations"][n]
                IN  Cardinality(ChildRowsOf("organization_service_demo_uses",
                                            "organization_id", Hex(o.id)))
                      = Cardinality(Distinct(o.service_demo_uses))
    /\ (Returned(3) /\ Drained(3))
          => \A n \in 1..Len(src["packages"]) :
                LET p == src["packages"][n]
                IN  /\ Cardinality(ChildRowsOf("package_items", "package_id",
                                               Hex(p.id)))
                         = Cardinality(Distinct(p.items))
                    /\ Cardinality(ChildRowsOf("package_activation_bonus_packages",
                                               "package_id", Hex(p.id)))
                         = Cardinality(Distinct(p.bonus))

\* ---------------------------------------------------------------- C5
RECURSIVE SumLen(_, _, _)
\* The number of embedded entries under field f in documents 1..n of docs.
SumLen(docs, f, n) ==
    IF n = 0 THEN 0 ELSE Len(docs[n][f]) + SumLen(docs, f, n - 1)

Entries(coll, f) == SumLen(src[coll], f, Len(src[coll]))

\* C5: after a run that ended with status 0 and whose steps all drained
\* their streams, every parent table holds one row per source document and
\* every child table one row per embedded entry (3, 2, 2, 1, 3 and 1 rows
\* for the end-to-end data set), in the first run and in a second one.
C5_EndToEndCounts ==
    (pc = "exit0" /\ \A k \in 1..NSteps : Drained(k))
       => /\ \A k \in 1..NSteps :
                Len(dest[ParentTables[k]]) = Len(src[Collections[k]])
          /\ Len(dest["organization_service_demo_uses"])
                = Entries("organizations", "service_demo_uses")
          /\ Len(dest["package_items"]) = Entries("packages", "items")
          /\ Len(dest["package_activation_bonus_packages"])
                = Entries("packages", "bonus")
          /\ src = DataA
                => /\ Len(dest["services"]) = 3
                   /\ Len(dest["organizations"]) = 2
                   /\ Len(dest["organization_service_demo_uses"]) = 2
                   /\ Len(dest["packages"]) = 1
                   /\ Len(dest["package_items"]) = 3
                   /\ Len(dest["package_activation_bonus_packages"]) = 1

\* ---------------------------------------------------------------- C6
YearInRange(t) == t.year >= 1970 /\ t.year <= 2100

\* C6: every timestamp column of every destination row holds NULL or a
\* value whose year lies in [1970, 2100], the not-null columns included.
C6_AllTimestampsInRange ==
    \A t \in TableSet :
       \A i \in 1..Len(dest[t]) :
          /\ \A col \in TimeCols(t) : YearInRange(dest[t][i][col])
          /\ \A col \in NullableTimeCols(t) :
                dest[t][i][col] = <<>> \/ YearInRange(dest[t][i][col][1])

\* ------------------------------------------------------------ C7 .. C10
\* The priority order and the code table of the claims.
Priority == <<"roaming_invoice", "roaming_contract", "roaming_waybill",
              "roaming_act", "roaming_verification_act", "roaming_empowerment",
              "edi_return_invoice", "edi_attorney">>

TypeCode(n) ==
    CASE n = "roaming_invoice" -> 3
      [] n = "roaming_contract" -> 7
      [] n = "roaming_waybill" -> 10
      [] n = "roaming_act" -> 9
      [] n = "roaming_verification_act" -> 8
      [] n = "roaming_empowerment" -> 11
      [] n = "edi_return_invoice" -> 2
      [] n = "edi_attorney" -> 4

\* The types that carry a validity interval instead of a date.
IntervalTypes == {"roaming_empowerment", "edi_attorney"}

PresentSubs(c) == {n \in SubNames : c.sub[n] # <<>>}

\* The first present sub-document in priority order.
Winner(c) ==
    Priority[CHOOSE i \in 1..Len(Priority) :
                /\ Priority[i] \in PresentSubs(c)
                /\ \A j \in 1..(i - 1) : Priority[j] \notin PresentSubs(c)]

WinnerDoc(c) == c.sub[Winner(c)][1]

\* The source document of a stored charge.
ChargeOf(row) ==
    CHOOSE c \in {src["charges"][i] : i \in 1..Len(src["charges"])} :
        Hex(c.id) = row.id

StoredCharges == {dest["charges"][i] : i \in 1..Len(dest["charges"])}

\* The string under a key when it is string-typed, else the empty string.
StringTyped(v) == IF v.k = "string" THEN v.s ELSE <<>>

\* The timestamp under a key when it is a native timestamp.
NativeTime(v) == IF v.k = "time" THEN <<v.t>> ELSE <<>>

\* The timestamp under a key in either accepted form.
NativeOrRFC3339(v) ==
    IF v.k = "time" THEN <<v.t>>
    ELSE IF v.k = "string" /\ ParseRFC3339(v.s).ok THEN <<ParseRFC3339(v.s).t>>
    ELSE <<>>

\* A pointer after the sanitizer: NULL unless the year is in [1970, 2100].
Sanitized(p) == IF p # <<>> /\ YearInRange(p[1]) THEN p ELSE <<>>

\* The key date1 is read from.
Date1Key(n) == IF n \in IntervalTypes THEN "start_date" ELSE "date"

\* ---------------------------------------------------------------- C7
\* C7: the stored type of a charge is the code of the first present
\* sub-document in the priority order; the eight codes are pairwise distinct
\* and lie in 2..11; no stored type is outside {0, 2, 3, 4, 7, 8, 9, 10, 11}.
C7_TypeByPriority ==
    /\ \A row \in StoredCharges :
          /\ row.type \in {0, 2, 3, 4, 7, 8, 9, 10, 11}
          /\ PresentSubs(ChargeOf(row)) # {}
                => row.type = TypeCode(Winner(ChargeOf(row)))
    /\ \A n, m \in SubNames :
          /\ TypeCode(n) >= 2 /\ TypeCode(n) <= 11
          /\ n # m => TypeCode(n) # TypeCode(m)

\* A stored charge with several sub-documents, decided by the seventh of the
\* priority order over the eighth.
C7_Witness ==
    \E row \in StoredCharges :
        /\ PresentSubs(ChargeOf(row)) = {"edi_return_invoice", "edi_attorney"}
        /\ row.type = 2

\* ---------------------------------------------------------------- C8
\* The date pointer the winning sub-document yields: a native timestamp
\* under its date key (its start_date for the interval types); the roaming
\* invoice also yields a parsed RFC 3339 string.
WinnerDate1(c) ==
    IF Winner(c) = "roaming_invoice"
    THEN NativeOrRFC3339(WinnerDoc(c)["date"])
    ELSE NativeTime(WinnerDoc(c)[Date1Key(Winner(c))])

WinnerDate2(c) ==
    IF Winner(c) \in IntervalTypes
    THEN NativeTime(WinnerDoc(c)["end_date"])
    ELSE <<>>

\* C8 as claimed: with a sub-document present, object_id, number, date1 and
\* date2 come only from the winning sub-document: its string-typed
\* identifier and number (else empty), its date (start_date for empowerment
\* and attorney) as date1, its end_date as date2 for empowerment and
\* attorney and no date2 for any other type.
C8_TupleOnlyFromWinner ==
    \A row \in StoredCharges :
        LET c == ChargeOf(row)
        IN  PresentSubs(c) # {}
              => /\ row.object_id = StringTyped(WinnerDoc(c)["_id"])
                 /\ row.number = StringTyped(WinnerDoc(c)["number"])
                 /\ row.date1 = Sanitized(WinnerDate1(c))
                 /\ row.date2 = Sanitized(WinnerDate2(c))

\* C8 as amended: object_id, number and date2 come only from the winning
\* sub-document, and so does date1 when the winner yields a date; when it
\* yields none, date1 is the charge's own created_at; every date is stored
\* sanitized, and no field ever comes from another present sub-document.
C8_TupleFromWinnerOrCreatedAt ==
    \A row \in StoredCharges :
        LET c == ChargeOf(row)
        IN  PresentSubs(c) # {}
              => /\ row.object_id = StringTyped(WinnerDoc(c)["_id"])
                 /\ row.number = StringTyped(WinnerDoc(c)["number"])
                 /\ row.date1 = IF WinnerDate1(c) # <<>>
                                THEN Sanitized(WinnerDate1(c))
                                ELSE Sanitized(<<c.created_at>>)
                 /\ row.date2 = Sanitized(WinnerDate2(c))

\* A stored charge with two sub-documents present whose tuple is the
\* winner's, and one with roaming_invoice alone, stored with type 3.
C8_Witness ==
    \E row \in StoredCharges :
        LET c == ChargeOf(row)
        IN  \/ /\ PresentSubs(c) = {"roaming_waybill", "edi_attorney"}
               /\ row.type = 10
               /\ row.number = <<"f", "2">>
               /\ row.date1 = <<T2023>>
               /\ row.date2 = <<>>
            \/ /\ PresentSubs(c) = {"roaming_invoice"}
               /\ row.type = 3
               /\ row.object_id = <<"f", "1">>
               /\ row.date1 = <<T2023>>

\* ---------------------------------------------------------------- C9
\* C9: with no sub-document present the stored type is 0,
\* object_id and number are empty, date2 is absent, and date1 is the
\* charge's creation timestamp, never NULL.
C9_UncategorizedDate1IsCreatedAt ==
    \A row \in StoredCharges :
        LET c == ChargeOf(row)
        IN  PresentSubs(c) = {}
              => /\ row.type = 0
                 /\ row.object_id = <<>>
                 /\ row.number = <<>>
                 /\ row.date2 = <<>>
                 /\ row.date1 = <<c.created_at>>

\* ---------------------------------------------------------------- C10
\* C10: for each of the eight types, a date field of the winning
\* sub-document is accepted as a native timestamp and as an RFC 3339 string:
\* a string that parses populates date1/date2 exactly as the native
\* timestamp would, one that does not parse leaves the field unpopulated
\* (date1 then takes the created_at default).
C10_StringDatesAccepted ==
    \A row \in StoredCharges :
        LET c == ChargeOf(row)
        IN  PresentSubs(c) # {}
              => LET d1 == NativeOrRFC3339(WinnerDoc(c)[Date1Key(Winner(c))])
                     d2 == IF Winner(c) \in IntervalTypes
                           THEN NativeOrRFC3339(WinnerDoc(c)["end_date"])
                           ELSE <<>>
                 IN  /\ row.date1 = IF d1 # <<>> THEN Sanitized(d1)
                                    ELSE Sanitized(<<c.created_at>>)
                     /\ row.date2 = Sanitized(d2)

\* ----------------------------------------------------------- C11, C12
StoredPayme ==
    {dest["payme_transactions"][i] : i \in 1..Len(dest["payme_transactions"])}

\* The source document of a stored payme transaction.
PaymeOf(row) ==
    CHOOSE p \in {src["paymeTransactions"][i] :
                    i \in 1..Len(src["paymeTransactions"])} :
        Hex(p.id) = row.id

\* A timestamp the sanitizer must map to absent.
Invalid(t) == t = ZeroTime \/ t.year < 1970 \/ t.year > 2100

\* What a nullable column must hold for a source pointer.
SanitizedPtr(p) == IF p = <<>> \/ Invalid(p[1]) THEN <<>> ELSE p

\* ---------------------------------------------------------------- C11
\* C11: validateDateTime returns absent exactly when the timestamp is the
\* zero value or its year is below 1970 or above 2100, and the same
\* timestamp otherwise: years 1970 and 2100 pass, years 0001 and 2200 are
\* absent, year 2023 passes unchanged.
C11_SanitizerRange ==
    /\ \A row \in StoredPayme :
          /\ row.system_completed_at
               = SanitizedPtr(PaymeOf(row).system_completed_at)
          /\ row.system_canceled_at
               = SanitizedPtr(PaymeOf(row).system_canceled_at)
    /\ \A t \in SanitizerTimes :
          validateDateTime(t) = IF Invalid(t) THEN <<>> ELSE <<t>>
    /\ validateDateTime(T1970) = <<T1970>>
    /\ validateDateTime(T2100) = <<T2100>>
    /\ validateDateTime(T2023) = <<T2023>>
    /\ validateDateTime(ZeroTime) = <<>>
    /\ validateDateTime(T2200) = <<>>

\* A stored transaction whose completion time, in the last second of 2100,
\* passed, and whose cancellation time of year 2200 was mapped to absent.
C11_Witness ==
    \E row \in StoredPayme :
        /\ PaymeOf(row).system_completed_at = <<T2100>>
        /\ row.system_completed_at = <<T2100>>
        /\ PaymeOf(row).system_canceled_at = <<T2200>>
        /\ row.system_canceled_at = <<>>

\* ---------------------------------------------------------------- C12
\* The fallback chain alone: payme_created_at is the source value when
\* valid, else created_at when valid, else a current time.
C12_PaymeCreatedAtChain ==
    \A row \in StoredPayme :
        LET p == PaymeOf(row)
        IN  IF ~Invalid(p.payme_created_at)
            THEN row.payme_created_at = p.payme_created_at
            ELSE IF ~Invalid(p.created_at)
            THEN row.payme_created_at = p.created_at
            ELSE row.payme_created_at \in NowTimes

Pass ==
    /\ pc = "in_step"
    /\ cursor'[stepIdx] = cursor[stepIdx] + 1

PassDoc == src[Collections[stepIdx]][cursor[stepIdx] + 1]

\* The embedded child entries of a document of step k.
EntryCount(k, doc) ==
    CASE k = 2 -> Len(doc.service_demo_uses)
      [] k = 3 -> Len(doc.items) + Len(doc.bonus)
      [] k = 4 -> Len(doc.package_items)
      [] OTHER -> 0

\* Child rows stored, and child inserts counted, by one step.
RowsAdded ==
    (Len(dest'["organization_service_demo_uses"])
       - Len(dest["organization_service_demo_uses"]))
    + (Len(dest'["package_items"]) - Len(dest["package_items"]))
    + (Len(dest'["package_activation_bonus_packages"])
         - Len(dest["package_activation_bonus_packages"]))
    + (Len(dest'["bought_package_items"]) - Len(dest["bought_package_items"]))

ChildrenCounted ==
    (childMoved'["organization_service_demo_uses"]
       - childMoved["organization_service_demo_uses"])
    + (childMoved'["package_items"] - childMoved["package_items"])
    + (childMoved'["package_activation_bonus_packages"]
         - childMoved["package_activation_bonus_packages"])
    + (childMoved'["bought_package_items"] - childMoved["bought_package_items"])

ParentPresent(d, k, doc) ==
    \E i \in 1..Len(d[ParentTables[k]]) :
        d[ParentTables[k]][i].id = Hex(doc.id)

\* What C13 says of every failure but the moved counter.
FailureReturnsAtOnce ==
    /\ (Pass /\ ~Decodes(PassDoc))
          => /\ err' # <<>>
             /\ err'[1].cause.op = "decode"
             /\ dest' = dest
    /\ (Pass /\ err' # <<>>)
          => /\ pc' = "exit1"
             /\ err'[1].cause.op \in {"decode", "insert"}
             /\ dest'[ParentTables[stepIdx]] # dest[ParentTables[stepIdx]]
                   => err'[1].cause.table \in ChildTables
             /\ err'[1].cause.op = "insert"
                   => /\ err'[1].cause.table \in ChildTables
                         => RowsAdded < EntryCount(stepIdx, PassDoc)
                      /\ err'[1].cause.table \notin ChildTables
                         => dest' = dest
    /\ (Pass /\ err' = <<>>)
          => /\ Decodes(PassDoc)
             /\ pc' = "in_step"
             /\ ParentPresent(dest', stepIdx, PassDoc)
             /\ moved' + skipped' = moved + skipped + 1
             /\ ChildrenCounted =
                  IF stepIdx = 4 /\ moved' = moved
                  THEN 0 ELSE EntryCount(stepIdx, PassDoc)
    /\ pc = "exit1" => (cursor' = cursor \/ run' = run + 1)

\* C13 as claimed: a decode failure or a failed insert returns an error at
\* once: no later document is processed, the failing document's remaining
\* children are not written, moved is not incremented for it, and the run
\* aborts; a pass that returns no error has written and counted the
\* document in full.
C13_FailureAbortsAndIsNotCounted ==
    [][/\ FailureReturnsAtOnce
       /\ (Pass /\ err' # <<>>) => moved' = moved]_vars

\* C13 as amended: as claimed, except that migrateBoughtPackages has
\* counted the parent as moved when one of its item inserts fails; in every
\* other failure moved is not incremented for the failing document.
C13_FailureAbortsCountedOnlyForBoughtPackageItems ==
    [][/\ FailureReturnsAtOnce
       /\ (Pass /\ err' # <<>>)
             => moved' = IF /\ stepIdx = 4
                            /\ err'[1].cause.op = "insert"
                            /\ err'[1].cause.table = "bought_package_items"
                         THEN moved + 1 ELSE moved]_vars

\* An organization's second demo-use insert failed: the run stopped with
\* the parent and one child written and nothing counted as moved.
C13_Witness ==
    /\ pc = "exit1"
    /\ stepIdx = 2
    /\ err # <<>>
    /\ err[1].cause.op = "insert"
    /\ err[1].cause.table = "organization_service_demo_uses"
    /\ Len(dest["organizations"]) = 1
    /\ Len(dest["organization_service_demo_uses"]) = 1
    /\ moved = 0

\* ---------------------------------------------------------------- C14
\* C14: a failure of the source store while a collection is streamed is
\* never swallowed: a step is reported as completed only when its cursor
\* delivered every document of its collection, and the program exits with
\* status 0 only when every step did.
C14_CursorFailureNeverSwallowed ==
    /\ \A k \in 1..Len(completed) : Drained(k)
    /\ pc = "exit0" => \A k \in 1..NSteps : Drained(k)

\* ---------------------------------------------------------------- C15
\* The step that starts, and the counts it logs.
StepStarts == pc = "migrateAll" /\ stepIdx' = stepIdx + 1

\* A logged count is the true one or, when the query failed, 0.
CountOrZero(n, true) == n = true \/ n = 0

\* C15: a failed existence check or count query never aborts a step by
\* itself.  No error a migrator returns has a check or a count as its cause;
\* a document whose row is absent is never skipped, whatever the existence
\* check answered: its parent insert is attempted, and it is moved unless
\* an insert fails; every logged count is the true count or 0, and the step
\* goes on after logging it.
C15_FailedReadsNeverAbort ==
    [][/\ (pc \in {"migrateAll", "in_step"} /\ err' # <<>>)
             => err'[1].cause.op \in {"find", "decode", "insert"}
       /\ (Pass /\ Decodes(PassDoc) /\ ~ParentPresent(dest, stepIdx, PassDoc))
             => /\ skipped' = skipped
                /\ \/ /\ err' = <<>>
                      /\ pc' = "in_step"
                      /\ ParentPresent(dest', stepIdx, PassDoc)
                      /\ moved' = moved + 1
                   \/ /\ err' # <<>>
                      /\ err'[1].cause.op = "insert"
       /\ StepStarts
             => /\ CountOrZero(counts'.mongo, Len(src[Collections[stepIdx']]))
                /\ \A i \in 1..Len(counts'.before) :
                      CountOrZero(counts'.before[i],
                                  Len(dest[CountedTables(stepIdx')[i]]))
                /\ err' # <<>> => err'[1].cause.op = "find"
       /\ (pc = "in_step" /\ completed' # completed)
             => /\ pc' = "migrateAll"
                /\ err' = <<>>
                /\ \A i \in 1..Len(counts'.after[1]) :
                      CountOrZero(counts'.after[1][i],
                                  Len(dest[CountedTables(stepIdx)[i]]))]_vars

\* The services step logged a source count of 0 for a collection of three
\* documents, then moved all three and completed.
C15_Witness ==
    /\ stepIdx = 1
    /\ Len(src["services"]) = 3
    /\ counts.mongo = 0
    /\ moved = 3
    /\ completed = <<"services">>
    /\ counts.after = <<<<3>>>>

\* ---------------------------------------------------------------- C16
FatalMessages == {"Failed to connect", "Failed to run migrations",
                  "Migration failed"}

\* The exit contract with "fails" read as "returns an error": the process
\* exits with a non-zero status and a fatal message when a connection fails,
\* when schema preparation returns an error or when one of the ten steps
\* returns an error, and exits with status 0 only from migrateAll after all
\* ten steps were logged as completed, with no error.
C16_ExitContract ==
    [][/\ (pc = "main" /\ faults' > faults)
             => (pc' = "exit1" /\ err' # <<>>
                 /\ err'[1].fatal = "Failed to connect")
       /\ (pc = "connected" /\ faults' > faults)
             => (pc' = "exit1" /\ err' # <<>>
                 /\ err'[1].fatal = "Failed to run migrations")
       /\ (pc \in {"migrateAll", "in_step"} /\ err' # <<>>)
             => (pc' = "exit1" /\ err'[1].fatal = "Migration failed")
       /\ pc' = "exit1"
             => (err' # <<>> /\ err'[1].fatal \in FatalMessages)
       /\ pc' = "exit0"
             => /\ err' = <<>>
                /\ completed' = Migrations
                /\ started' = Migrations
       /\ (pc # "exit0" /\ pc' = "exit0")
             => (pc = "migrateAll" /\ stepIdx = NSteps)]_vars

\* C16: the process exits with a non-zero status and a fatal message when
\* connection setup, schema preparation or one of the ten steps fails, and
\* with status 0 only after all ten steps completed successfully: a step
\* whose source stream broke off has failed, so a step ends without an
\* error only with its collection delivered in full, and at exit 0 every
\* collection was.
C16_ExitZeroOnlyAfterSuccess ==
    [][/\ (pc \in {"main", "connected"} /\ faults' > faults) => pc' = "exit1"
       /\ (pc \in {"migrateAll", "in_step"} /\ err' # <<>>) => pc' = "exit1"
       /\ pc' = "exit1" => (err' # <<>> /\ err'[1].fatal \in FatalMessages)
       /\ (pc = "in_step" /\ pc' = "migrateAll") => Drained(stepIdx)
       /\ pc' = "exit0"
             => /\ completed' = Migrations
                /\ \A k \in 1..NSteps : Drained(k)']_vars

\* ---------------------------------------------------------------- C17
\* C17: over a whole program run the system only creates destination rows:
\* no row is ever deleted or updated, so every table only grows, by rows
\* appended to what it held.
C17_RowsOnlyCreated ==
    [][\A t \in TableSet : IsPrefix(dest[t], dest'[t])]_vars

\* ---------------------------------------------------------------- C18
\* The hex identifiers of the source documents of step k.
SourceIds(k) ==
    {Hex(src[Collections[k]][i].id) : i \in 1..Len(src[Collections[k]])}

AllSourceIds == UNION {SourceIds(k) : k \in 1..NSteps}

Ids(table) == [i \in 1..Len(dest[table]) |-> dest[table][i].id]

NoRepeat(seq) == \A i, j \in 1..Len(seq) : i # j => seq[i] # seq[j]

\* C18: each parent table holds at most one row per primary key, and every
\* parent primary key is the hex identifier of a document of the step's
\* source collection; only bought_package_items rows carry an identifier
\* minted at migration time (the other child rows carry none), and the
\* minted identifiers are pairwise distinct.
C18_ParentKeysFromSource ==
    /\ \A k \in 1..NSteps :
          dest[ParentTables[k]] # <<>>
            => LET ids == SourceIds(k)
               IN  /\ NoRepeat(Ids(ParentTables[k]))
                   /\ \A i \in 1..Len(dest[ParentTables[k]]) :
                         dest[ParentTables[k]][i].id \in ids
    /\ dest["bought_package_items"] # <<>>
          => LET ids == AllSourceIds
             IN  /\ NoRepeat(Ids("bought_package_items"))
                 /\ \A i \in 1..Len(dest["bought_package_items"]) :
                       dest["bought_package_items"][i].id \notin ids
    /\ \A i \in 1..Len(dest["package_items"]) :
          dest["package_items"][i].id = <<>>
    /\ \A t \in {"organization_service_demo_uses",
                 "package_activation_bonus_packages"} :
          \A i \in 1..Len(dest[t]) : "id" \notin DOMAIN dest[t][i]

\* Two item rows under two minted identifiers next to their parent, in a
\* destination that holds all three services.
C18_Witness ==
    /\ Len(dest["services"]) = 3
    /\ Len(dest["bought_packages"]) = 1
    /\ Len(dest["bought_package_items"]) = 2
    /\ dest["bought_package_items"][1].id # dest["bought_package_items"][2].id

\* ---------------------------------------------------------------- C19
\* The documents of collection coll whose parent row is in table.
Migrated(coll, table) ==
    {i \in 1..Len(src[coll]) :
        /\ Decodes(src[coll][i])
        /\ \E j \in 1..Len(dest[table]) :
              dest[table][j].id = Hex(src[coll][i].id)}

\* The values of column col in the rows of child table t under parent id.
ChildValues(t, parentCol, id, col) ==
    [n \in 1..Cardinality(ChildRowsOf(t, parentCol, id)) |->
       LET rows == ChildRowsOf(t, parentCol, id)
           i == CHOOSE r \in rows : Cardinality({q \in rows : q < r}) = n - 1
       IN  dest[t][i][col]]

\* A successful run on a destination earlier runs wrote to has ended.
RerunSucceeded ==
    /\ run > 1
    /\ pc = "exit0"
    /\ \A k \in 1..NSteps : Drained(k)

\* C19, for bought-packages: after a successful re-run, every bought package
\* present in the destination, whether the re-run inserted it or a stopped
\* run had left it behind without all of its items, has its full set of
\* item rows, each exactly once.
C19_RerunBackfillsBoughtPackageItems ==
    RerunSucceeded
      => \A i \in Migrated("boughtPackages", "bought_packages") :
            LET doc == src["boughtPackages"][i]
            IN  ChildValues("bought_package_items", "bought_package_id",
                            Hex(doc.id), "code")
                  = [j \in 1..Len(doc.package_items) |->
                       doc.package_items[j].code]

\* ---------------------------------------------------------------- C20
ItemRows(d) == {d["bought_package_items"][i] :
                  i \in 1..Len(d["bought_package_items"])}

\* C20: bought_package_items rows are written only by the bought-packages
\* step, each under an identifier no row carried before, and only in the
\* pass that inserted the bought_packages row they reference; a pass that
\* finds its parent present writes no item row.
C20_ItemsOnlyWithFreshParent ==
    [][/\ (pc = "in_step"
           /\ dest'["bought_package_items"] # dest["bought_package_items"])
             => /\ stepIdx = 4
                /\ Pass
                /\ ~ParentPresent(dest, 4, PassDoc)
                /\ ParentPresent(dest', 4, PassDoc)
                /\ moved' = moved + 1
                /\ IsPrefix(dest["bought_package_items"],
                            dest'["bought_package_items"])
                /\ \A row \in ItemRows(dest') \ ItemRows(dest) :
                      /\ row.bought_package_id = Hex(PassDoc.id)
                      /\ \A old \in ItemRows(dest) : old.id # row.id
                      /\ row.id \notin AllSourceIds
                /\ NoRepeat(Ids("bought_package_items"))'
       /\ (RerunOfPresent /\ stepIdx = 4)
             => dest'["bought_package_items"] = dest["bought_package_items"]
       /\ (pc \in {"main", "migrateAll"})
             => dest'["bought_package_items"] = dest["bought_package_items"]]_vars

\* A re-run skipped a bought package that an earlier run had inserted, and
\* wrote no item row for it.
C20_Witness ==
    /\ run = 2
    /\ stepIdx = 4
    /\ pc = "in_step"
    /\ cursor[4] = 1
    /\ skipped = 1
    /\ moved = 0
    /\ Len(dest["bought_packages"]) = 1
    /\ Len(dest["bought_package_items"]) = 0

\* ---------------------------------------------------------------- C21
\* The loop body of step k.
BodyOf(k, d, doc, o, oid) ==
    CASE k = 1 -> servicesBody(d, doc, o, oid)
      [] k = 2 -> organizationsBody(d, doc, o, oid)
      [] k = 3 -> packagesBody(d, doc, o, oid)
      [] k = 4 -> boughtPackagesBody(d, doc, o, oid)
      [] k = 5 -> chargesBody(d, doc, o, oid)
      [] k = 6 -> paymentsBody(d, doc, o, oid)
      [] k = 7 -> paymeTransactionsBody(d, doc, o, oid)
      [] k = 8 -> organizationBalanceBindingsBody(d, doc, o, oid)
      [] k = 9 -> creditUpdatesBody(d, doc, o, oid)
      [] OTHER -> bankPaymentAutoApplyErrorsBody(d, doc, o, oid)

\* The existence query of the pass fails and no insert is refused by the
\* store for a reason of its own.
OnlyCheckFails == [check |-> TRUE, ins |-> 0, now |-> ZeroTime]

\* C21: when the existence check fails for a document whose parent row is
\* already in the destination, the document is not skipped: the parent
\* insert is attempted (one statement), it fails on the duplicate key, the
\* destination is unchanged and neither skipped nor moved is incremented;
\* and every pass over a present document that does not skip it aborts the
\* run with a fatal error naming the step and the refused parent insert.
C21_FailedCheckOnPresentAborts ==
    [][RerunOfPresent
         => /\ LET r == BodyOf(stepIdx, dest, PassDoc, OnlyCheckFails, nextOid)
               IN  /\ r.skipped = 0
                   /\ r.moved = 0
                   /\ r.inserts = 1
                   /\ r.dest = dest
                   /\ r.err = <<[op |-> "insert",
                                 table |-> ParentTables[stepIdx],
                                 id |-> Hex(PassDoc.id),
                                 why |-> "duplicate key"]>>
            /\ skipped' = skipped
                 => /\ faults' > faults
                    /\ dest' = dest
                    /\ moved' = moved
                    /\ pc' = "exit1"
                    /\ err' # <<>>
                    /\ err'[1].fatal = "Migration failed"
                    /\ err'[1].migration = Migrations[stepIdx]
                    /\ err'[1].cause.op = "insert"
                    /\ err'[1].cause.table = ParentTables[stepIdx]
                    /\ err'[1].cause.id = Hex(PassDoc.id)
                    /\ faults' = faults + 1
                          => err'[1].cause.why = "duplicate key"]_vars

\* A re-run whose existence query failed on a service already stored: the
\* insert was refused as a duplicate and the run stopped in the services step.
C21_Witness ==
    /\ run = 2
    /\ pc = "exit1"
    /\ stepIdx = 1
    /\ err # <<>>
    /\ err[1].cause.op = "insert"
    /\ err[1].cause.table = "services"
    /\ err[1].cause.why = "duplicate key"
    /\ skipped = 0
    /\ moved = 0
    /\ Len(dest["services"]) = 3

\* ---------------------------------------------------------------- C22
\* The running migrator returns nil: its loop has ended and it logs its
\* counters and the counts after.
StepReturns == pc = "in_step" /\ completed' # completed

\* C22: when a migrator returns success, moved + skipped is the number of
\* documents its cursor delivered; the count it logged before the loop is
\* the parent table's row count at that time (its count now minus moved) or
\* the 0 of a failed query, the count it logs after the loop is the row
\* count now or 0; and when no store call has failed, the count after is
\* the count before plus moved.
C22_CountersAccountForTheStep ==
    [][StepReturns
         => LET parent == ParentTables[stepIdx]
                before == counts.before[1]
                after == counts'.after[1][1]
            IN  /\ moved + skipped = cursor[stepIdx]
                /\ moved' = moved /\ skipped' = skipped /\ dest' = dest
                /\ before \in {0, Len(dest[parent]) - moved}
                /\ after \in {0, Len(dest[parent])}
                /\ (before # 0 /\ after # 0) => after = before + moved
                /\ faults' = 0
                     => /\ after = before + moved
                        /\ after = Len(dest[parent])]_vars

\* A re-run of the services step on a destination that held one of the
\* three services: one skipped, two moved, counts 1 before and 3 after.
C22_Witness ==
    /\ run = 2
    /\ stepIdx = 1
    /\ completed = <<"services">>
    /\ counts.before = <<1>>
    /\ skipped = 1
    /\ moved = 2
    /\ counts.after = <<<<3>>>>

\* ---------------------------------------------------------------- C23
\* The documents the cursors of this run have still to deliver, plus the
\* steps still to start.
Remaining ==
    (NSteps - stepIdx)
    + SumLen([k \in 1..NSteps |->
                [left |-> [i \in 1..(Len(src[Collections[k]]) - cursor[k]) |-> i]]],
             "left", NSteps)

\* What is left of the run, counted in steps of the process: two for each
\* document and each step still to come, one more inside a migrator's loop.
Measure == 2 * Remaining + (IF pc = "in_step" THEN 1 ELSE 0)

\* The run never goes back and always gets closer to its end: no step
\* starts twice, no cursor is rewound, and every step of migrateAll or of a
\* migrator either ends the run or lowers the measure, which is never
\* negative; migrateAll returns nil only after the tenth step.
NoLoopNoRestart ==
    pc \in {"migrateAll", "in_step"}
      => /\ stepIdx' \in {stepIdx, stepIdx + 1}
         /\ stepIdx' <= NSteps
         /\ \A k \in 1..NSteps : cursor'[k] >= cursor[k]
         /\ Measure >= 0
         /\ pc' \in {"exit0", "exit1"} \/ Measure' < Measure
         /\ pc' = "exit1" => err' # <<>>
         /\ pc' = "exit0" => (stepIdx = NSteps /\ err' = <<>>)

\* C23: every run of migrateAll terminates, no step loops or restarts, and
\* a step ends without an error only when it has drained its stream: each
\* step either drains its stream and completes or fails outright.
C23_EveryStepDrainsOrFails ==
    [][/\ NoLoopNoRestart
       /\ StepReturns => Drained(stepIdx)]_vars

\* C23 without the draining: every run of migrateAll terminates after at
\* most ten steps, in success or in an error, and no step loops or restarts.
C23_RunTerminates == [][NoLoopNoRestart]_vars

\* ---------------------------------------------------------------- C24
\* The pass over the same document and store in which no call fails, with
\* time.Now() answering n.
Unfailing(n) ==
    BodyOf(stepIdx, dest, PassDoc, [check |-> FALSE, ins |-> 0, now |-> n],
           nextOid)

\* Rows added to table t by one step.
Added(t) == Len(dest'[t]) - Len(dest[t])

\* C24: nothing is rolled back.  Within a run every table keeps the rows it
\* held, unchanged and in place, also in the step that aborts; a loop pass
\* writes only to the tables of its step; what a pass that aborts leaves
\* behind is, table by table, a prefix of what the pass writes when no call
\* fails, and every child insert that returned before the failure is still
\* stored; after the abort the destination stays as it is until the
\* program is started again.
C24_NothingRolledBack ==
    [][/\ pc \in {"migrateAll", "in_step", "exit0", "exit1"}
             => \A t \in TableSet : IsPrefix(dest[t], dest'[t])
       /\ pc \in {"migrateAll", "exit0", "exit1"} => dest' = dest
       /\ Pass
             => /\ \A t \in TableSet :
                     Added(t) # 0
                        => \E i \in 1..Len(CountedTables(stepIdx)) :
                              CountedTables(stepIdx)[i] = t
                /\ (Decodes(PassDoc) /\ dest' # dest)
                     => \E n \in (IF stepIdx = 7 THEN NowTimes ELSE {ZeroTime}) :
                           LET whole == Unfailing(n).dest
                           IN  \A t \in TableSet : IsPrefix(dest'[t], whole[t])
                /\ \A t \in {"organization_service_demo_uses",
                             "package_activation_bonus_packages",
                             "bought_package_items"} :
                      Added(t) = childMoved'[t] - childMoved[t]
                /\ Added("package_items")
                     <= childMoved'["package_items"] - childMoved["package_items"]]_vars

\* The bought-packages step aborted on the second item of its document:
\* the parent row, its first item and the rows of the three earlier steps
\* are in the destination.
C24_Witness ==
    /\ pc = "exit1"
    /\ stepIdx = 4
    /\ err # <<>>
    /\ err[1].cause.op = "insert"
    /\ err[1].cause.table = "bought_package_items"
    /\ Len(dest["bought_packages"]) = 1
    /\ Len(dest["bought_package_items"]) = 1
    /\ Len(dest["services"]) = 3
    /\ Len(dest["organizations"]) = 2
    /\ Len(dest["packages"]) = 1

\* ---------------------------------------------------------------- C25
\* The column of child table t that names its parent, and the parent table.
ParentCol(t) ==
    CASE t = "organization_service_demo_uses" -> "organization_id"
      [] t = "bought_package_items" -> "bought_package_id"
      [] OTHER -> "package_id"

ParentOf(t) ==
    CASE t = "organization_service_demo_uses" -> "organizations"
      [] t = "bought_package_items" -> "bought_packages"
      [] OTHER -> "packages"

\* Row i of child table t has its parent row in store d.
HasParent(d, t, i) ==
    \E j \in 1..Len(d[ParentOf(t)]) :
        d[ParentOf(t)][j].id = d[t][i][ParentCol(t)]

\* C25: in every reachable destination state every row of the four child
\* tables references a parent row that is present in the destination.
C25_NoOrphanChildRows ==
    \A t \in ChildTables : \A i \in 1..Len(dest[t]) : HasParent(dest, t, i)

\* The part of C25 about the migrators: a child row is written only in a
\* pass over its parent's document, and the parent row is in the
\* destination when the pass ends.
C25_ChildWrittenWithParent ==
    [][(pc = "migrateAll" \/ pc = "in_step")
         => \A t \in ChildTables :
               /\ IsPrefix(dest[t], dest'[t])
               /\ \A i \in (Len(dest[t]) + 1)..Len(dest'[t]) :
                     /\ Pass
                     /\ dest'[t][i][ParentCol(t)] = Hex(PassDoc.id)
                     /\ ParentOf(t) = ParentTables[stepIdx]
                     /\ HasParent(dest', t, i)]_vars

\* ---------------------------------------------------------------- C26
\* C26: every charge whose winning sub-document yields no date1 (its date,
\* or start_date, is missing or is no usable timestamp) is stored with a
\* type in 2..11 and with date1 equal to the sanitized created_at, as the
\* charges without a sub-document are; date2 has no fallback: it is the
\* sanitized end_date the winner yields, and absent when the winner yields
\* none, whatever created_at is.
C26_FallbackForEveryMissingDate1 ==
    \A row \in StoredCharges :
        LET c == ChargeOf(row)
        IN  /\ (PresentSubs(c) # {} /\ WinnerDate1(c) = <<>>)
                 => /\ row.type \in 2..11
                    /\ row.date1 = Sanitized(<<c.created_at>>)
                    /\ row.date2 = Sanitized(WinnerDate2(c))
            /\ PresentSubs(c) = {}
                 => /\ row.date1 = Sanitized(<<c.created_at>>)
                    /\ row.date2 = <<>>
            /\ (PresentSubs(c) # {} /\ WinnerDate2(c) = <<>>)
                 => row.date2 = <<>>

\* A stored attorney charge whose start_date is a string: date1 is its
\* created_at, while date2 is its end_date.
C26_Witness ==
    \E row \in StoredCharges :
        LET c == ChargeOf(row)
        IN  /\ PresentSubs(c) = {"edi_attorney"}
            /\ WinnerDoc(c)["start_date"] = StrVal(S2022)
            /\ WinnerDoc(c)["end_date"] = TimeVal(T2024)
            /\ c.created_at = T2023
            /\ row.type = 4
            /\ row.date1 = <<T2023>>
            /\ row.date2 = <<T2024>>

\* ---------------------------------------------------------------- C27
\* Child table i of the step that returns: its reported moved counter is
\* the number of rows the step added to it, taken from the counts the step
\* logged before and after its loop.
CounterIsRowsAdded(i) ==
    childMoved[CountedTables(stepIdx)[i]]
      = counts'.after[1][i] - counts.before[i]

\* C27: when the organizations or the packages step returns success and no
\* store call has failed, the moved counter it reports for each of its
\* insert-or-ignore child tables equals the rows it added to that table.
C27_ChildCounterIsRowsAdded ==
    [][(StepReturns /\ stepIdx \in {2, 3} /\ faults' = 0)
         => \A i \in 2..Len(CountedTables(stepIdx)) : CounterIsRowsAdded(i)]_vars

\* C27 for the two child tables without a key, where no insert is ever
\* ignored: the counter is the number of rows added.
C27_KeylessChildCounterIsRowsAdded ==
    [][(StepReturns /\ stepIdx \in {2, 3} /\ faults' = 0)
         => \A i \in 2..Len(CountedTables(stepIdx)) :
               CountedTables(stepIdx)[i] # "package_items"
                  => CounterIsRowsAdded(i)]_vars

====
